---------------------------- MODULE Spec2Model ----------------------------
(***************************************************************************)
(* Bidirectional heuristic search of awgu/gbfhs: the GBFHS controller      *)
(* (src/gbfhs.cpp) and the MMe controller (src/mme.cpp), run one after the *)
(* other on the same instance as the experiment driver does                *)
(* (src/main.cpp).                                                         *)
(*                                                                         *)
(* The domain is consumed through expand (successors of a state) and       *)
(* h (heuristic of a state in a direction).  An instance fixes the state   *)
(* graph: either an n-pancake stack space built from flip and the GAP-x    *)
(* heuristic (src/pancake.cpp), or an arbitrary finite undirected          *)
(* unit-cost graph with an admissible, consistent forward heuristic.  The  *)
(* backward heuristic is the blind heuristic of src/pancake.cpp.           *)
(***************************************************************************)
EXTENDS Integers, Sequences, FiniteSets, TLC

(* --------------------------- bounds ----------------------------------- *)
\* number of vertices of the exhaustively enumerated graphs
NumV == 4
\* largest heuristic value given to a vertex that cannot reach the goal
MaxH == 2
\* number of pancakes of the pancake instances (the plate is n+1)
PancakeN == 3

(* --------------------------- program constants ------------------------ *)
INT_MAX == 2147483647
eps == 1

VARIABLES
    succOf,          \* instance: state -> sequence of successor states
    hF,              \* instance: state -> forward heuristic value
    initial_state,   \* instance: start state
    goal_state,      \* instance: goal state
    pc,              \* control location of the driver / running search
    best,            \* gbfhs: best; mme: U
    fLim, gLim_F, gLim_B,
    open_F, open_B, closed_F, closed_B,
    expandable_F, expandable_B,
    node,            \* node being expanded (sequence of length 0 or 1)
    successors,      \* successors of node still to be processed
    nodes_expanded,
    gbfhs_opt, mme_opt,   \* values returned to the driver (sequence 0/1)
    gen_F, gen_B,    \* history: state -> least parent_g + 1 generated so far
    pq,              \* A* baselines: priority queue (sequence of nodes)
    visited,         \* astar: nodes popped so far
    cost,            \* a_star: g of the last node popped
    a_star_opt       \* value returned by an A* baseline (sequence 0/1)

vars == <<succOf, hF, initial_state, goal_state, pc, best, fLim, gLim_F,
          gLim_B, open_F, open_B, closed_F, closed_B, expandable_F,
          expandable_B, node, successors, nodes_expanded, gbfhs_opt,
          mme_opt, gen_F, gen_B, pq, visited, cost, a_star_opt>>

baseline == <<pq, visited, cost, a_star_opt>>

instance == <<succOf, hF, initial_state, goal_state>>

(* --------------------------- arithmetic helpers ----------------------- *)
Min(a, b) == IF a <= b THEN a ELSE b
Max(a, b) == IF a >= b THEN a ELSE b
Abs(a) == IF a < 0 THEN -a ELSE a
Range(f) == {f[i] : i \in DOMAIN f}

(* --------------------------- pancake domain --------------------------- *)
\* flip(s, k): reverse the prefix s[0..k] (0-based), i.e. the top k+1 pancakes
flip_short(s, k) == [i \in 1..Len(s) |-> IF i <= k THEN s[k + 1 - i] ELSE s[i]]
flip_rotate(s, k) ==
    [i \in 1..Len(s) |-> IF i <= k THEN s[i + 1] ELSE IF i = k + 1 THEN s[1] ELSE s[i]]
flip(s, k) == [i \in 1..Len(s) |-> IF i <= k + 1 THEN s[k + 2 - i] ELSE s[i]]

\* GAP-x: adjacent pairs (0-based positions i, i+1 with gap_x <= i < n)
\* differing by more than one; blind in the backward direction
GapCount_breaks(s, gap_x) ==
    Cardinality({i \in (gap_x + 1)..(Len(s) - 1) : Abs(s[i] - s[i + 1]) >= 1})
GapCount(s, gap_x) ==
    Cardinality({i \in (gap_x + 1)..(Len(s) - 1) : Abs(s[i] - s[i + 1]) > 1})

Perms(n) == {p \in [1..n -> 1..n] : \A i, j \in 1..n : i # j => p[i] # p[j]}
Stacks(n) == {p \o <<n + 1>> : p \in Perms(n)}
Sorted(n) == [i \in 1..(n + 1) |-> i]

(* --------------------------- graph helpers ---------------------------- *)
Nbrs(s) == Range(succOf[s])

RECURSIVE Reach(_, _)
\* Reach(front, k): states within k edges of the set front
Reach(front, k) ==
    IF k = 0 THEN front
    ELSE Reach(front \cup UNION {Nbrs(s) : s \in front}, k - 1)

RECURSIVE DistFrom(_, _, _, _)
DistFrom(front, seen, t, d) ==
    IF t \in front THEN d
    ELSE LET nxt == (UNION {Nbrs(s) : s \in front}) \ seen
         IN  IF nxt = {} THEN INT_MAX
             ELSE DistFrom(nxt, seen \cup nxt, t, d + 1)

\* true shortest-path length between two states of the instance
Dist(a, b) == DistFrom({a}, {a}, b, 0)

(* --------------------------- nodes and node sets ---------------------- *)
Node(s, g_F, g_B, h_F, h_B, dir) ==
    [s |-> s, g_F |-> g_F, g_B |-> g_B, h_F |-> h_F, h_B |-> h_B, dir |-> dir]

\* unordered_set<Node,NodeHash,NodeEqual>: identity is the state s alone
Count(set, n) == IF \E m \in set : m.s = n.s THEN 1 ELSE 0
Find(set, n) == CHOOSE m \in set : m.s = n.s
Insert_none(set, n) == set
Insert(set, n) == IF Count(set, n) > 0 THEN set ELSE set \cup {n}
Erase_noop(set, n) == set
Erase(set, n) == {m \in set : m.s # n.s}

is_solved(s, g) == s = g

h(s, dir) == IF dir = "B" THEN 0 ELSE hF[s]

is_expandable_fOnly(n, dir, fLimV, gLim_D) ==
    LET f_D == IF dir = "F" THEN n.g_F + n.h_F ELSE n.g_B + n.h_B
    IN  f_D <= fLimV
is_expandable(n, dir, fLimV, gLim_D) ==
    LET g_D == IF dir = "F" THEN n.g_F ELSE n.g_B
        f_D == IF dir = "F" THEN n.g_F + n.h_F ELSE n.g_B + n.h_B
    IN  f_D <= fLimV /\ g_D < gLim_D

\* split writes both limits from gLSum alone
split_swapped(gLSum) == [gLim_F |-> gLSum \div 2, gLim_B |-> gLSum - (gLSum \div 2)]
split(gLSum) == [gLim_B |-> gLSum \div 2, gLim_F |-> gLSum - (gLSum \div 2)]

\* expand(node): one successor node per operator, tagged with node's direction
expand(n) ==
    [i \in 1..Len(succOf[n.s]) |->
        LET t == succOf[n.s][i]
        IN  IF n.dir = "F"
            THEN Node(t, n.g_F + 1, n.g_B, h(t, "F"), h(t, "B"), "F")
            ELSE Node(t, n.g_F, n.g_B + 1, h(t, "F"), h(t, "B"), "B")]

(* --------------------------- history helpers -------------------------- *)
Note(gen, s, c) ==
    IF s \in DOMAIN gen
    THEN [gen EXCEPT ![s] = Min(@, c)]
    ELSE [x \in DOMAIN gen \cup {s} |-> IF x = s THEN c ELSE gen[x]]

(* --------------------------- initial states --------------------------- *)
Fresh ==
    /\ pc = "gbfhs"
    /\ best = INT_MAX
    /\ fLim = 0 /\ gLim_F = 0 /\ gLim_B = 0
    /\ open_F = {} /\ open_B = {} /\ closed_F = {} /\ closed_B = {}
    /\ expandable_F = {} /\ expandable_B = {}
    /\ node = <<>> /\ successors = <<>>
    /\ nodes_expanded = 0
    /\ gbfhs_opt = <<>> /\ mme_opt = <<>>
    /\ gen_F = <<>> /\ gen_B = <<>>
    /\ pq = <<>> /\ visited = {} /\ cost = 0 /\ a_star_opt = <<>>

\* sequence listing the elements of a finite set of integers in increasing order
RECURSIVE SortedSeq(_)
SortedSeq(S) ==
    IF S = {} THEN <<>>
    ELSE LET m == CHOOSE x \in S : \A y \in S : x <= y
         IN  <<m>> \o SortedSeq(S \ {m})

V == 1..NumV
Pairs == {e \in V \X V : e[1] < e[2]}

AdjOf(E) == [v \in V |-> SortedSeq({w \in V : <<v, w>> \in E \/ <<w, v>> \in E})]

RECURSIVE DistIn(_, _, _, _, _)
DistIn(adj, front, seen, t, d) ==
    IF t \in front THEN d
    ELSE LET nxt == (UNION {Range(adj[s]) : s \in front}) \ seen
         IN  IF nxt = {} THEN INT_MAX
             ELSE DistIn(adj, nxt, seen \cup nxt, t, d + 1)

\* admissible (never above the true distance to g) and consistent
\* (differs by at most one along an edge); values are capped by cap where the
\* goal cannot be reached
GoodHeuristics(adj, g, cap) ==
    LET S == DOMAIN adj
        d == [v \in S |-> DistIn(adj, {v}, {v}, g, 0)]
        top == [v \in S |-> IF d[v] = INT_MAX THEN cap ELSE d[v]]
    IN  {hh \in [S -> 0..Max(cap, Cardinality(S) - 1)] :
            /\ \A v \in S : hh[v] <= top[v]
            /\ \A v \in S : \A i \in DOMAIN adj[v] : Abs(hh[v] - hh[adj[v][i]]) <= 1}

\* every undirected graph on NumV vertices, start 1, goal 1 or 2
GraphInit ==
    /\ \E E \in SUBSET Pairs : succOf = AdjOf(E)
    /\ initial_state = 1
    /\ goal_state \in {1, 2} \cap V
    /\ hF \in GoodHeuristics(succOf, goal_state, MaxH)
    /\ Fresh

\* a nine-state graph in which the cheapest path 1-3-6-7-8-9-2 leaves the
\* start through a state whose f-value exceeds that of the detour 1-4-5-6
DetourEdges == {<<1, 3>>, <<1, 4>>, <<4, 5>>, <<5, 6>>, <<3, 6>>,
                <<6, 7>>, <<7, 8>>, <<8, 9>>, <<9, 2>>}
DetourAdj ==
    [v \in 1..9 |-> SortedSeq({w \in 1..9 : <<v, w>> \in DetourEdges \/ <<w, v>> \in DetourEdges})]
DetourH == [v \in 1..9 |-> CASE v = 1 -> 5 [] v = 2 -> 0 [] v = 3 -> 5
                             [] v = 4 -> 4 [] v = 5 -> 3 [] v = 6 -> 4
                             [] v = 7 -> 3 [] v = 8 -> 2 [] v = 9 -> 1]

DetourInit ==
    /\ succOf = DetourAdj
    /\ initial_state = 1
    /\ goal_state = 2
    /\ hF = DetourH
    /\ Fresh

\* a seven-state graph with two equally long routes 1-3-5 and 1-4-5 into the
\* only path to the goal, under the perfect heuristic: states of equal
\* priority and different cost are open together
DiamondEdges == {<<1, 3>>, <<1, 4>>, <<3, 5>>, <<4, 5>>, <<5, 6>>, <<6, 7>>, <<7, 2>>}
DiamondAdj ==
    [v \in 1..7 |-> SortedSeq({w \in 1..7 : <<v, w>> \in DiamondEdges \/ <<w, v>> \in DiamondEdges})]
DiamondH == [v \in 1..7 |-> CASE v = 1 -> 5 [] v = 2 -> 0 [] v = 3 -> 4
                              [] v = 4 -> 4 [] v = 5 -> 3 [] v = 6 -> 2
                              [] v = 7 -> 1]

DiamondInit ==
    /\ succOf = DiamondAdj
    /\ initial_state = 1
    /\ goal_state = 2
    /\ hF = DiamondH
    /\ Fresh

\* the pancake domain: every start stack, sorted goal, every GAP-x
PancakeInit ==
    /\ succOf = [s \in Stacks(PancakeN) |-> [k \in 1..(PancakeN - 1) |-> flip(s, k)]]
    /\ initial_state \in Stacks(PancakeN)
    /\ goal_state = Sorted(PancakeN)
    /\ \E gap_x \in 0..PancakeN : hF = [s \in Stacks(PancakeN) |-> GapCount(s, gap_x)]
    /\ Fresh

\* the four-pancake instance 2 1 4 3 (plate 5) under GAP-0
ScenarioStart == <<2, 1, 4, 3, 5>>
ScenarioGoal == <<1, 2, 3, 4, 5>>
ScenarioInit ==
    LET n == Len(ScenarioStart) - 1
    IN  /\ succOf = [s \in Stacks(n) |-> [k \in 1..(n - 1) |-> flip(s, k)]]
        /\ initial_state = ScenarioStart
        /\ goal_state = ScenarioGoal
        /\ hF = [s \in Stacks(n) |-> GapCount(s, 0)]
        /\ Fresh

Init == GraphInit \/ DetourInit \/ DiamondInit \/ PancakeInit \/ ScenarioInit

(* --------------------------- gbfhs (src/gbfhs.cpp) -------------------- *)
\* remove the i-th element of a sequence
Drop(seq, i) == [j \in 1..(Len(seq) - 1) |-> IF j < i THEN seq[j] ELSE seq[j + 1]]

\* gbfhs hands its result to the driver, which then calls mme
GbfhsReturn_fLim(v) ==
    /\ gbfhs_opt' = <<fLim>>
    /\ pc' = "mme"
GbfhsReturn(v) ==
    /\ gbfhs_opt' = <<v>>
    /\ pc' = "mme"

\* values an int declared without an initialiser (line 327) may hold
Indeterminate == {0, INT_MAX}

\* gbfhs lines 314-327: goal test, seeding of the open sets, first fLim; the
\* two limits are declared without a value
GbfhsEntry ==
    /\ pc = "gbfhs"
    /\ IF is_solved(initial_state, goal_state)
       THEN /\ GbfhsReturn(0)
            /\ UNCHANGED <<best, fLim, gLim_F, gLim_B, open_F, open_B,
                           closed_F, closed_B, nodes_expanded, gen_F, gen_B>>
       ELSE /\ best' = INT_MAX
            /\ open_F' = {Node(initial_state, 0, 0, h(initial_state, "F"),
                               h(initial_state, "B"), "F")}
            /\ open_B' = {Node(goal_state, 0, 0, 0, 0, "B")}
            /\ closed_F' = {} /\ closed_B' = {}
            /\ nodes_expanded' = 0
            /\ fLim' = Max(Max(h(initial_state, "F"), h(goal_state, "B")), eps)
            /\ gLim_F' \in Indeterminate /\ gLim_B' \in Indeterminate
            /\ gen_F' = Note(<<>>, initial_state, 0)
            /\ gen_B' = Note(<<>>, goal_state, 0)
            /\ pc' = "g_while"
            /\ UNCHANGED gbfhs_opt
    /\ UNCHANGED <<baseline, instance, expandable_F, expandable_B, node, successors,
                   mme_opt>>

\* gbfhs lines 328-334 and expand_level lines 226-237: loop test, split and
\* the construction of the expandable subsets
GbfhsWhile ==
    /\ pc = "g_while"
    /\ IF open_F = {} \/ open_B = {} \/ best = fLim
       THEN /\ GbfhsReturn(best)
            /\ UNCHANGED <<gLim_F, gLim_B, expandable_F, expandable_B>>
       ELSE LET lim == split(fLim - eps + 1)
            IN  /\ gLim_F' = lim.gLim_F
                /\ gLim_B' = lim.gLim_B
                /\ expandable_F' = {n \in open_F : is_expandable(n, "F", fLim, lim.gLim_F)}
                /\ expandable_B' = {n \in open_B : is_expandable(n, "B", fLim, lim.gLim_B)}
                /\ pc' = "g_level"
                /\ UNCHANGED gbfhs_opt
    /\ UNCHANGED <<baseline, instance, best, fLim, open_F, open_B, closed_F, closed_B,
                   node, successors, nodes_expanded, mme_opt, gen_F, gen_B>>

\* pick: any member of either expandable set
pick(eF, eB) == eF \cup eB

\* expand_level lines 238-245 / 272-276: pick a node, close it, expand it
GbfhsPick ==
    /\ pc = "g_level"
    /\ expandable_F # {} \/ expandable_B # {}
    /\ \E n \in pick(expandable_F, expandable_B) :
          /\ IF n.dir = "F"
             THEN /\ expandable_F' = Erase(expandable_F, n)
                  /\ open_F' = Erase(open_F, n)
                  /\ closed_F' = Insert(closed_F, n)
                  /\ UNCHANGED <<expandable_B, open_B, closed_B>>
             ELSE /\ expandable_B' = Erase(expandable_B, n)
                  /\ open_B' = Erase(open_B, n)
                  /\ closed_B' = Insert(closed_B, n)
                  /\ UNCHANGED <<expandable_F, open_F, closed_F>>
          /\ node' = <<n>>
          /\ successors' = expand(n)
          /\ nodes_expanded' = nodes_expanded + 1
          /\ pc' = IF expand(n) = <<>> THEN "g_level" ELSE "g_succ"
    /\ UNCHANGED <<baseline, instance, best, fLim, gLim_F, gLim_B, gbfhs_opt, mme_opt,
                   gen_F, gen_B>>

\* the forward skip test of line 248-249 and the backward one of line 279-280:
\* both compare against the g_F field of the freshly generated successor
SkipTest_F_never(n, s_node) == FALSE
SkipTest_F(n, s_node) == n.g_F + 1 >= s_node.g_F
SkipTest_B(n, s_node) == n.g_F + 1 >= s_node.g_F

\* collision update of lines 263-265 / 294-296
Collide_F_stale(s_node, oB, b) ==
    Min(b, s_node.g_F + s_node.g_B)
Collide_F(s_node, oB, b) ==
    LET g_B == Max(s_node.g_B, Find(oB, s_node).g_B)
    IN  Min(b, s_node.g_F + g_B)
Collide_B_stale(s_node, oF, b) ==
    Min(b, s_node.g_B + s_node.g_F)
Collide_B(s_node, oF, b) ==
    LET g_F == Max(s_node.g_F, Find(oF, s_node).g_F)
    IN  Min(b, s_node.g_B + g_F)

\* the test of lines 266 / 297 that ends the level after a collision
EarlyReturn_never(b, fLimV) == FALSE
EarlyReturn(b, fLimV) == b <= fLimV

\* expand_level lines 246-270: one successor of a forward expansion
StepSucc_F(n, s_node) ==
    LET present == Count(open_F, s_node) > 0 \/ Count(closed_F, s_node) > 0
        s1 == [s_node EXCEPT !.g_F = n.g_F + 1]
        oF1 == IF present THEN Erase(open_F, s_node) ELSE open_F
        cF1 == IF present THEN Erase(closed_F, s_node) ELSE closed_F
        collision == Count(open_B, s1) > 0
        b1 == IF collision THEN Collide_F(s1, open_B, best) ELSE best
    IN  IF present /\ SkipTest_F(n, s_node)
        THEN [open_F |-> open_F, closed_F |-> closed_F, open_B |-> open_B,
              closed_B |-> closed_B, expandable_F |-> expandable_F,
              expandable_B |-> expandable_B, best |-> best, ret |-> FALSE]
        ELSE [open_F |-> Insert(oF1, s1), closed_F |-> cF1, open_B |-> open_B,
              closed_B |-> closed_B,
              expandable_F |-> IF is_expandable(s1, "F", fLim, gLim_F)
                               THEN Insert(expandable_F, s1) ELSE expandable_F,
              expandable_B |-> expandable_B, best |-> b1,
              ret |-> collision /\ EarlyReturn(b1, fLim)]

\* expand_level lines 277-301: one successor of a backward expansion
StepSucc_B(n, s_node) ==
    LET present == Count(open_B, s_node) > 0 \/ Count(closed_B, s_node) > 0
        s1 == [s_node EXCEPT !.g_B = n.g_B + 1]
        oB1 == IF present THEN Erase(open_B, s_node) ELSE open_B
        cB1 == IF present THEN Erase(closed_B, s_node) ELSE closed_B
        collision == Count(open_F, s1) > 0
        b1 == IF collision THEN Collide_B(s1, open_F, best) ELSE best
    IN  IF present /\ SkipTest_B(n, s_node)
        THEN [open_F |-> open_F, closed_F |-> closed_F, open_B |-> open_B,
              closed_B |-> closed_B, expandable_F |-> expandable_F,
              expandable_B |-> expandable_B, best |-> best, ret |-> FALSE]
        ELSE [open_F |-> open_F, closed_F |-> closed_F, open_B |-> Insert(oB1, s1),
              closed_B |-> cB1, expandable_F |-> expandable_F,
              expandable_B |-> IF is_expandable(s1, "B", fLim, gLim_B)
                               THEN Insert(expandable_B, s1) ELSE expandable_B,
              best |-> b1, ret |-> collision /\ EarlyReturn(b1, fLim)]

\* one iteration of the successor loop; the successors are held in an
\* unordered set, so any of the remaining ones may come next.  An early
\* return from expand_level continues at gbfhs lines 336-340.
GbfhsSucc ==
    /\ pc = "g_succ"
    /\ \E i \in DOMAIN successors :
          LET n == node[1]
              s_node == successors[i]
              r == IF n.dir = "F" THEN StepSucc_F(n, s_node) ELSE StepSucc_B(n, s_node)
              rest == Drop(successors, i)
          IN  /\ open_F' = r.open_F /\ closed_F' = r.closed_F
              /\ open_B' = r.open_B /\ closed_B' = r.closed_B
              /\ expandable_F' = r.expandable_F
              /\ expandable_B' = r.expandable_B
              /\ best' = r.best
              /\ gen_F' = IF n.dir = "F" THEN Note(gen_F, s_node.s, n.g_F + 1) ELSE gen_F
              /\ gen_B' = IF n.dir = "B" THEN Note(gen_B, s_node.s, n.g_B + 1) ELSE gen_B
              /\ IF r.ret
                 THEN /\ successors' = <<>>
                      /\ IF r.best = fLim
                         THEN GbfhsReturn(r.best) /\ UNCHANGED fLim
                         ELSE /\ fLim' = fLim + 1
                              /\ pc' = "g_while"
                              /\ UNCHANGED gbfhs_opt
                 ELSE /\ successors' = rest
                      /\ pc' = IF rest = <<>> THEN "g_level" ELSE "g_succ"
                      /\ UNCHANGED <<fLim, gbfhs_opt>>
    /\ UNCHANGED <<baseline, instance, gLim_F, gLim_B, node, nodes_expanded, mme_opt>>

\* no expandable node is left: expand_level returns, gbfhs lines 336-340
GbfhsLevelEnd_once ==
    /\ pc = "g_level"
    /\ expandable_F = {} /\ expandable_B = {}
    /\ GbfhsReturn(best) /\ UNCHANGED fLim
    /\ UNCHANGED <<baseline, instance, best, gLim_F, gLim_B, open_F, open_B, closed_F,
                   closed_B, expandable_F, expandable_B, node, successors,
                   nodes_expanded, mme_opt, gen_F, gen_B>>
GbfhsLevelEnd_stuck ==
    /\ pc = "g_level"
    /\ expandable_F = {} /\ expandable_B = {}
    /\ IF best = fLim
       THEN GbfhsReturn(best) /\ UNCHANGED fLim
       ELSE /\ fLim' = fLim
            /\ pc' = "g_while"
            /\ UNCHANGED gbfhs_opt
    /\ UNCHANGED <<baseline, instance, best, gLim_F, gLim_B, open_F, open_B, closed_F,
                   closed_B, expandable_F, expandable_B, node, successors,
                   nodes_expanded, mme_opt, gen_F, gen_B>>
GbfhsLevelEnd ==
    /\ pc = "g_level"
    /\ expandable_F = {} /\ expandable_B = {}
    /\ IF best = fLim
       THEN GbfhsReturn(best) /\ UNCHANGED fLim
       ELSE /\ fLim' = fLim + 1
            /\ pc' = "g_while"
            /\ UNCHANGED gbfhs_opt
    /\ UNCHANGED <<baseline, instance, best, gLim_F, gLim_B, open_F, open_B, closed_F,
                   closed_B, expandable_F, expandable_B, node, successors,
                   nodes_expanded, mme_opt, gen_F, gen_B>>

(* --------------------------- mme (src/mme.cpp) ------------------------ *)
pr_fOnly(n, dir) ==
    IF dir = "F" THEN n.g_F + n.h_F ELSE n.g_B + n.h_B
pr(n, dir) ==
    LET f_D == IF dir = "F" THEN n.g_F + n.h_F ELSE n.g_B + n.h_B
        g_D == IF dir = "F" THEN n.g_F ELSE n.g_B
    IN  Max(f_D, 2 * g_D + eps)

\* the value of a one-element set
The(S) == CHOOSE x \in S : TRUE

RECURSIVE SetToSeq(_)
SetToSeq(S) ==
    IF S = {} THEN <<>>
    ELSE The({<<x>> \o SetToSeq(S \ {x}) : x \in {The(S)}})

\* an iteration order of a node set that starts with the node first
IterationFrom(set, first) == <<first>> \o SetToSeq(set \ {first})

\* one iteration of the loop of scan (lines 65-91) on node n
ScanStep_noTie(acc, n, dir) ==
    LET pr_D == pr(n, dir)
        g_n == IF dir = "F" THEN n.g_F ELSE n.g_B
        f_n == IF dir = "F" THEN n.g_F + n.h_F ELSE n.g_B + n.h_B
        a1 == IF pr_D < acc.prmin
              THEN [acc EXCEPT !.opt_node = n, !.prmin = pr_D, !.g_D = g_n]
              ELSE acc
    IN  [a1 EXCEPT !.fmin = Min(a1.fmin, f_n), !.gmin = Min(a1.gmin, g_n)]
ScanStep(acc, n, dir) ==
    LET pr_D == pr(n, dir)
        g_n == IF dir = "F" THEN n.g_F ELSE n.g_B
        f_n == IF dir = "F" THEN n.g_F + n.h_F ELSE n.g_B + n.h_B
        a1 == IF pr_D < acc.prmin
              THEN [acc EXCEPT !.opt_node = n, !.prmin = pr_D, !.g_D = g_n]
              ELSE IF pr_D = acc.prmin /\ g_n < acc.g_D
                   THEN [acc EXCEPT !.opt_node = n, !.g_D = g_n]
                   ELSE acc
    IN  [a1 EXCEPT !.fmin = Min(a1.fmin, f_n), !.gmin = Min(a1.gmin, g_n)]

RECURSIVE ScanLoop(_, _, _, _)
\* the loop of scan over the nodes order[i..]
ScanLoop(order, i, dir, acc) ==
    IF i > Len(order) THEN acc
    ELSE The({ScanLoop(order, i + 1, dir, a) : a \in {ScanStep(acc, order[i], dir)}})

\* scan (lines 54-95) for the iteration order given
scan(order, dir) ==
    ScanLoop(order, 1, dir,
             [opt_node |-> order[1], prmin |-> INT_MAX, fmin |-> INT_MAX,
              gmin |-> INT_MAX, g_D |-> INT_MAX])

\* mme hands its result to the driver
MmeReturn(v) ==
    /\ mme_opt' = <<v>>
    /\ pc' = "done"

\* mme lines 109-116: seeding of the open sets
MmeEntry ==
    /\ pc = "mme"
    /\ best' = INT_MAX
    /\ open_F' = {Node(initial_state, 0, 0, h(initial_state, "F"),
                       h(initial_state, "B"), "F")}
    /\ open_B' = {Node(goal_state, 0, 0, 0, 0, "B")}
    /\ closed_F' = {} /\ closed_B' = {}
    /\ nodes_expanded' = 0
    /\ gen_F' = Note(<<>>, initial_state, 0)
    /\ gen_B' = Note(<<>>, goal_state, 0)
    /\ fLim' = 0 /\ gLim_F' = 0 /\ gLim_B' = 0
    /\ expandable_F' = {} /\ expandable_B' = {}
    /\ node' = <<>> /\ successors' = <<>>
    /\ pc' = "m_while"
    /\ UNCHANGED <<baseline, instance, gbfhs_opt, mme_opt>>

\* the stopping inequality of line 123
StopTest_strict(U, C, fmin_F, fmin_B, gmin_F, gmin_B) ==
    U < Max(Max(C, fmin_F), Max(fmin_B, gmin_F + gmin_B + eps))
StopTest(U, C, fmin_F, fmin_B, gmin_F, gmin_B) ==
    U <= Max(Max(C, fmin_F), Max(fmin_B, gmin_F + gmin_B + eps))

\* mme lines 117-131 / 158-163: loop test, both scans, stopping test, choice
\* of the direction, closing and expansion of the chosen node
MmeWhile ==
    /\ pc = "m_while"
    /\ IF open_F = {} \/ open_B = {}
       THEN /\ MmeReturn(best)
            /\ UNCHANGED <<open_F, open_B, closed_F, closed_B, node, successors,
                           nodes_expanded>>
       ELSE \E first_F \in open_F, first_B \in open_B :
            \E sc_F \in {scan(IterationFrom(open_F, first_F), "F")},
               sc_B \in {scan(IterationFrom(open_B, first_B), "B")} :
              LET C == Min(sc_F.prmin, sc_B.prmin)
                  n == IF C = sc_F.prmin THEN sc_F.opt_node ELSE sc_B.opt_node
              IN  IF StopTest(best, C, sc_F.fmin, sc_B.fmin, sc_F.gmin, sc_B.gmin)
                  THEN /\ MmeReturn(best)
                       /\ UNCHANGED <<open_F, open_B, closed_F, closed_B, node,
                                      successors, nodes_expanded>>
                  ELSE /\ IF C = sc_F.prmin
                          THEN /\ open_F' = Erase(open_F, n)
                               /\ closed_F' = Insert(closed_F, n)
                               /\ UNCHANGED <<open_B, closed_B>>
                          ELSE /\ open_B' = Erase(open_B, n)
                               /\ closed_B' = Insert(closed_B, n)
                               /\ UNCHANGED <<open_F, closed_F>>
                       /\ node' = <<n>>
                       /\ successors' = expand(n)
                       /\ nodes_expanded' = nodes_expanded + 1
                       /\ pc' = IF expand(n) = <<>> THEN "m_while" ELSE "m_succ"
                       /\ UNCHANGED mme_opt
    /\ UNCHANGED <<baseline, instance, best, fLim, gLim_F, gLim_B, expandable_F,
                   expandable_B, gbfhs_opt, gen_F, gen_B>>

\* lines 133-144 / 165-176: the recorded cost of the successor, if any
OldCost_F_own(s_node) == s_node.g_F
OldCost_F(s_node) ==
    IF Count(open_F, s_node) > 0 THEN Find(open_F, s_node).g_F
    ELSE IF Count(closed_F, s_node) > 0 THEN Find(closed_F, s_node).g_F
    ELSE INT_MAX
OldCost_B(s_node) ==
    IF Count(open_B, s_node) > 0 THEN Find(open_B, s_node).g_B
    ELSE IF Count(closed_B, s_node) > 0 THEN Find(closed_B, s_node).g_B
    ELSE INT_MAX

\* the update of U at lines 153-156 / 185-188
UpdateU_oneSide(U, g_D, g_opp) == Min(U, g_D)
UpdateU(U, g_D, g_opp) == Min(U, g_D + g_opp)

\* the test of lines 141-142 / 173-174: the candidate cost does not improve on
\* the recorded one
NoImprovement_firstWins(cand, old) == TRUE
NoImprovement_never(cand, old) == FALSE
NoImprovement(cand, old) == cand >= old

\* mme lines 132-157: one successor of a forward expansion
MmeStep_F_keep(n, s_node) ==
    LET present == Count(open_F, s_node) > 0 \/ Count(closed_F, s_node) > 0
        s1 == [s_node EXCEPT !.g_F = n.g_F + 1]
    IN  [open_F |-> Insert(open_F, s1), closed_F |-> closed_F, open_B |-> open_B,
         closed_B |-> closed_B,
         best |-> IF ~present /\ Count(open_B, s1) > 0
                  THEN UpdateU(best, s1.g_F, Find(open_B, s1).g_B)
                  ELSE best]
MmeStep_F(n, s_node) ==
    LET present == Count(open_F, s_node) > 0 \/ Count(closed_F, s_node) > 0
        s1 == [s_node EXCEPT !.g_F = n.g_F + 1]
        oF1 == IF present THEN Erase(open_F, s_node) ELSE open_F
        cF1 == IF present THEN Erase(closed_F, s_node) ELSE closed_F
    IN  IF present /\ NoImprovement(n.g_F + 1, OldCost_F(s_node))
        THEN [open_F |-> open_F, closed_F |-> closed_F, open_B |-> open_B,
              closed_B |-> closed_B, best |-> best]
        ELSE [open_F |-> Insert(oF1, s1), closed_F |-> cF1, open_B |-> open_B,
              closed_B |-> closed_B,
              best |-> IF Count(open_B, s1) > 0
                       THEN UpdateU(best, s1.g_F, Find(open_B, s1).g_B)
                       ELSE best]

\* mme lines 164-189: one successor of a backward expansion
MmeStep_B(n, s_node) ==
    LET present == Count(open_B, s_node) > 0 \/ Count(closed_B, s_node) > 0
        s1 == [s_node EXCEPT !.g_B = n.g_B + 1]
        oB1 == IF present THEN Erase(open_B, s_node) ELSE open_B
        cB1 == IF present THEN Erase(closed_B, s_node) ELSE closed_B
    IN  IF present /\ NoImprovement(n.g_B + 1, OldCost_B(s_node))
        THEN [open_F |-> open_F, closed_F |-> closed_F, open_B |-> open_B,
              closed_B |-> closed_B, best |-> best]
        ELSE [open_F |-> open_F, closed_F |-> closed_F, open_B |-> Insert(oB1, s1),
              closed_B |-> cB1,
              best |-> IF Count(open_F, s1) > 0
                       THEN UpdateU(best, s1.g_B, Find(open_F, s1).g_F)
                       ELSE best]

\* one iteration of the successor loop, in the order of the successor vector;
\* the forward branch is the one that expands node_F, whose tag is F
MmeSucc_stuck ==
    /\ pc = "m_succ"
    /\ LET n == node[1]
           s_node == Head(successors)
           r == IF n.dir = "F" THEN MmeStep_F(n, s_node) ELSE MmeStep_B(n, s_node)
       IN  /\ open_F' = r.open_F /\ closed_F' = r.closed_F
           /\ open_B' = r.open_B /\ closed_B' = r.closed_B
           /\ best' = r.best
           /\ gen_F' = IF n.dir = "F" THEN Note(gen_F, s_node.s, n.g_F + 1) ELSE gen_F
           /\ gen_B' = IF n.dir = "B" THEN Note(gen_B, s_node.s, n.g_B + 1) ELSE gen_B
           /\ successors' = successors
           /\ pc' = "m_succ"
    /\ UNCHANGED <<baseline, instance, fLim, gLim_F, gLim_B, expandable_F, expandable_B,
                   node, nodes_expanded, gbfhs_opt, mme_opt>>
MmeSucc ==
    /\ pc = "m_succ"
    /\ LET n == node[1]
           s_node == Head(successors)
           r == IF n.dir = "F" THEN MmeStep_F(n, s_node) ELSE MmeStep_B(n, s_node)
       IN  /\ open_F' = r.open_F /\ closed_F' = r.closed_F
           /\ open_B' = r.open_B /\ closed_B' = r.closed_B
           /\ best' = r.best
           /\ gen_F' = IF n.dir = "F" THEN Note(gen_F, s_node.s, n.g_F + 1) ELSE gen_F
           /\ gen_B' = IF n.dir = "B" THEN Note(gen_B, s_node.s, n.g_B + 1) ELSE gen_B
           /\ successors' = Tail(successors)
           /\ pc' = IF Tail(successors) = <<>> THEN "m_while" ELSE "m_succ"
    /\ UNCHANGED <<baseline, instance, fLim, gLim_F, gLim_B, expandable_F, expandable_B,
                   node, nodes_expanded, gbfhs_opt, mme_opt>>

(* --------------------------- specification ---------------------------- *)
Next ==
    \/ GbfhsEntry
    \/ GbfhsWhile
    \/ GbfhsPick
    \/ GbfhsSucc
    \/ GbfhsLevelEnd
    \/ MmeEntry
    \/ MmeWhile
    \/ MmeSucc

Spec == Init /\ [][Next]_vars

\* the program is a single thread that always takes its next step
FairSpec == Spec /\ WF_vars(Next)

(* --------------------------- repeated calls --------------------------- *)
\* the experiment loop draws another start stack and calls gbfhs again: the
\* locals of the finished call are gone, the file-level counter of
\* gbfhs.cpp (line 25) keeps its value
NextCall ==
    /\ pc = "mme"
    /\ initial_state' \in DOMAIN succOf
    /\ pc' = "gbfhs"
    /\ gbfhs_opt' = <<>>
    /\ best' = INT_MAX
    /\ fLim' = 0 /\ gLim_F' = 0 /\ gLim_B' = 0
    /\ open_F' = {} /\ open_B' = {} /\ closed_F' = {} /\ closed_B' = {}
    /\ expandable_F' = {} /\ expandable_B' = {}
    /\ node' = <<>> /\ successors' = <<>>
    /\ gen_F' = <<>> /\ gen_B' = <<>>
    /\ UNCHANGED <<baseline, succOf, hF, goal_state, nodes_expanded, mme_opt>>

CallsInit == PancakeInit

CallsNext == Next \/ NextCall

SpecCalls == CallsInit /\ [][CallsNext]_vars

(* --------------------------- sliding-tile puzzle (src/puzzle.cpp) ---- *)
BOARD_DIM == 3

\* a board is the sequence of its cells in row-major order, 0 is the blank;
\* cell i of the source (0-based) is element i + 1 here
index_to_row(i) == i \div BOARD_DIM
index_to_col(i) == i % BOARD_DIM
row_col_to_index(row, col) == row * BOARD_DIM + col

\* get_pos: row and column of the first cell that holds val
get_pos(s, val) ==
    LET i == CHOOSE j \in 0..(Len(s) - 1) :
                 s[j + 1] = val /\ \A k \in 0..(j - 1) : s[k + 1] # val
    IN  [row |-> index_to_row(i), col |-> index_to_col(i)]

is_valid_up_strict(row) == row > 1
is_valid_up(row) == row > 0
is_valid_down(row) == row < BOARD_DIM - 1
is_valid_left(col) == col > 0
is_valid_right(col) == col < BOARD_DIM - 1

\* make_move: the blank changes place with its neighbour in direction move
make_move(s, move) ==
    LET pos == get_pos(s, 0)
        index == row_col_to_index(pos.row, pos.col)
        swap_index == CASE move = "Up" -> row_col_to_index(pos.row - 1, pos.col)
                        [] move = "Down" -> row_col_to_index(pos.row + 1, pos.col)
                        [] move = "Left" -> row_col_to_index(pos.row, pos.col - 1)
                        [] move = "Right" -> row_col_to_index(pos.row, pos.col + 1)
    IN  [i \in 1..Len(s) |->
            IF i = index + 1 THEN s[swap_index + 1]
            ELSE IF i = swap_index + 1 THEN s[index + 1] ELSE s[i]]

PuzzleNode(s, dir) == [s |-> s, dir |-> dir]

\* expand of puzzle.cpp: the valid moves in the order up, down, left, right
puzzle_expand(n) ==
    LET pos == get_pos(n.s, 0)
        up == IF is_valid_up(pos.row)
              THEN <<PuzzleNode(make_move(n.s, "Up"), n.dir)>> ELSE <<>>
        down == IF is_valid_down(pos.row)
                THEN <<PuzzleNode(make_move(n.s, "Down"), n.dir)>> ELSE <<>>
        left == IF is_valid_left(pos.col)
                THEN <<PuzzleNode(make_move(n.s, "Left"), n.dir)>> ELSE <<>>
        right == IF is_valid_right(pos.col)
                 THEN <<PuzzleNode(make_move(n.s, "Right"), n.dir)>> ELSE <<>>
    IN  up \o down \o left \o right

(* --------------------------- expand applied to single nodes ------------ *)
\* the board with the blank in cell p and the tiles in increasing order
\* starting from tile r + 1
Board(p, r) ==
    LET cells == BOARD_DIM * BOARD_DIM
    IN  [i \in 1..cells |->
            IF i - 1 = p THEN 0
            ELSE LET j == IF i - 1 < p THEN i - 1 ELSE i - 2
                 IN  ((j + r) % (cells - 1)) + 1]
Boards == {Board(p, r) : p \in 0..(BOARD_DIM * BOARD_DIM - 1),
                         r \in 0..(BOARD_DIM * BOARD_DIM - 2)}

Idle ==
    /\ best = INT_MAX
    /\ fLim = 0 /\ gLim_F = 0 /\ gLim_B = 0
    /\ open_F = {} /\ open_B = {} /\ closed_F = {} /\ closed_B = {}
    /\ expandable_F = {} /\ expandable_B = {}
    /\ successors = <<>>
    /\ nodes_expanded = 0
    /\ gbfhs_opt = <<>> /\ mme_opt = <<>>
    /\ gen_F = <<>> /\ gen_B = <<>>
    /\ pq = <<>> /\ visited = {} /\ cost = 0 /\ a_star_opt = <<>>

\* a pancake node of either direction, about to be expanded
ExpandInitPancake ==
    /\ succOf = [s \in Stacks(PancakeN) |-> [k \in 1..(PancakeN - 1) |-> flip(s, k)]]
    /\ initial_state \in Stacks(PancakeN)
    /\ goal_state = Sorted(PancakeN)
    /\ \E gap_x \in 0..PancakeN : hF = [s \in Stacks(PancakeN) |-> GapCount(s, gap_x)]
    /\ \E dir \in {"F", "B"} :
          node = <<Node(initial_state, 0, 0, h(initial_state, "F"),
                        h(initial_state, "B"), dir)>>
    /\ pc = "expand"
    /\ Idle

\* a puzzle node of either direction, about to be expanded
ExpandInitPuzzle ==
    /\ succOf = <<>> /\ hF = <<>>
    /\ initial_state \in Boards
    /\ goal_state = Board(0, 0)
    /\ \E dir \in {"F", "B"} : node = <<PuzzleNode(initial_state, dir)>>
    /\ pc = "puzzle_expand"
    /\ Idle

ExpandInit == ExpandInitPancake \/ ExpandInitPuzzle

ApplyExpand ==
    /\ pc = "expand"
    /\ successors' = expand(node[1])
    /\ nodes_expanded' = nodes_expanded + 1
    /\ pc' = "expanded"
    /\ UNCHANGED <<baseline, instance, best, fLim, gLim_F, gLim_B, open_F, open_B,
                   closed_F, closed_B, expandable_F, expandable_B, node,
                   gbfhs_opt, mme_opt, gen_F, gen_B>>

ApplyPuzzleExpand ==
    /\ pc = "puzzle_expand"
    /\ successors' = puzzle_expand(node[1])
    /\ nodes_expanded' = nodes_expanded + 1
    /\ pc' = "expanded"
    /\ UNCHANGED <<baseline, instance, best, fLim, gLim_F, gLim_B, open_F, open_B,
                   closed_F, closed_B, expandable_F, expandable_B, node,
                   gbfhs_opt, mme_opt, gen_F, gen_B>>

ExpandNext == ApplyExpand \/ ApplyPuzzleExpand

ExpandSpec == ExpandInit /\ [][ExpandNext]_vars

(* --------------------------- A* baseline (src/a_star.cpp) ------------- *)
AStarNode(s, g, hv) == [s |-> s, g |-> g, h |-> hv]

\* index of an entry of least f = g + h: the top of the priority queue
TopIndex(q) ==
    CHOOSE i \in DOMAIN q : \A j \in DOMAIN q : q[i].g + q[i].h <= q[j].g + q[j].h

RECURSIVE AStarLoop(_, _)
\* the loop of a_star (lines 69-83); last is the g of the last node popped
AStarLoop(q, last) ==
    IF q = <<>> THEN last
    ELSE LET i == TopIndex(q)
             n == q[i]
             children == [k \in DOMAIN succOf[n.s] |->
                             AStarNode(succOf[n.s][k], n.g + 1, h(succOf[n.s][k], "F"))]
         IN  IF is_solved(n.s, goal_state) THEN n.g
             ELSE AStarLoop(Drop(q, i) \o children, n.g)

a_star == AStarLoop(<<AStarNode(initial_state, 0, h(initial_state, "F"))>>, 0)

(* --------------------------- A* baselines as processes ---------------- *)
\* an A* baseline hands its result to its caller
AStarReturn(v) ==
    /\ a_star_opt' = <<v>>
    /\ pc' = "returned"

\* a_star (src/a_star.cpp) lines 65-68: cost 0, the queue holds the start
PancakeAStarEntry ==
    /\ pc = "a_star"
    /\ cost' = 0
    /\ pq' = <<AStarNode(initial_state, 0, h(initial_state, "F"))>>
    /\ pc' = "a_star_loop"
    /\ UNCHANGED <<instance, best, fLim, gLim_F, gLim_B, open_F, open_B,
                   closed_F, closed_B, expandable_F, expandable_B, node,
                   successors, nodes_expanded, gbfhs_opt, mme_opt, gen_F,
                   gen_B, visited, a_star_opt>>

\* a_star lines 69-85: one iteration of the loop, or the return after it
PancakeAStarStep ==
    /\ pc = "a_star_loop"
    /\ IF pq = <<>>
       THEN /\ AStarReturn(cost)
            /\ UNCHANGED <<pq, cost, node, nodes_expanded>>
       ELSE LET i == TopIndex(pq)
                n == pq[i]
                children == [k \in DOMAIN succOf[n.s] |->
                                AStarNode(succOf[n.s][k], n.g + 1,
                                          h(succOf[n.s][k], "F"))]
            IN  /\ nodes_expanded' = nodes_expanded + 1
                /\ node' = <<n>>
                /\ cost' = n.g
                /\ IF is_solved(n.s, goal_state)
                   THEN /\ AStarReturn(n.g)
                        /\ pq' = Drop(pq, i)
                   ELSE /\ pq' = Drop(pq, i) \o children
                        /\ UNCHANGED <<pc, a_star_opt>>
    /\ UNCHANGED <<instance, best, fLim, gLim_F, gLim_B, open_F, open_B,
                   closed_F, closed_B, expandable_F, expandable_B,
                   successors, gbfhs_opt, mme_opt, gen_F, gen_B, visited>>

\* astar (src/astar.cpp) lines 142-145: nothing visited, the queue holds the
\* start
PuzzleAstarEntry ==
    /\ pc = "astar"
    /\ visited' = {}
    /\ pq' = <<AStarNode(initial_state, 0, h(initial_state, "F"))>>
    /\ pc' = "astar_loop"
    /\ UNCHANGED <<instance, best, fLim, gLim_F, gLim_B, open_F, open_B,
                   closed_F, closed_B, expandable_F, expandable_B, node,
                   successors, nodes_expanded, gbfhs_opt, mme_opt, gen_F,
                   gen_B, cost, a_star_opt>>

\* the pushes of astar lines 155-159: the successors not yet visited, in order
RECURSIVE Unvisited(_, _)
Unvisited(succs, seen) ==
    IF succs = <<>> THEN <<>>
    ELSE (IF Count(seen, Head(succs)) = 0 THEN <<Head(succs)>> ELSE <<>>)
             \o Unvisited(Tail(succs), seen)

\* astar lines 146-162: one iteration of the loop, or the return after it
PuzzleAstarStep ==
    /\ pc = "astar_loop"
    /\ IF pq = <<>>
       THEN /\ AStarReturn(INT_MAX)
            /\ UNCHANGED <<pq, visited, node, nodes_expanded, successors>>
       ELSE LET i == TopIndex(pq)
                n == pq[i]
                seen == Insert(visited, n)
                succs == [k \in DOMAIN succOf[n.s] |->
                             AStarNode(succOf[n.s][k], n.g + 1,
                                       h(succOf[n.s][k], "F"))]
            IN  /\ node' = <<n>>
                /\ visited' = seen
                /\ IF is_solved(n.s, goal_state)
                   THEN /\ AStarReturn(n.g)
                        /\ pq' = Drop(pq, i)
                        /\ UNCHANGED <<nodes_expanded, successors>>
                   ELSE /\ nodes_expanded' = nodes_expanded + 1
                        /\ successors' = succs
                        /\ pq' = Drop(pq, i) \o Unvisited(succs, seen)
                        /\ UNCHANGED <<pc, a_star_opt>>
    /\ UNCHANGED <<instance, best, fLim, gLim_F, gLim_B, open_F, open_B,
                   closed_F, closed_B, expandable_F, expandable_B,
                   gbfhs_opt, mme_opt, gen_F, gen_B, cost>>

\* a_star on every pancake instance
AStarInitPancake ==
    /\ succOf = [s \in Stacks(PancakeN) |-> [k \in 1..(PancakeN - 1) |-> flip(s, k)]]
    /\ initial_state \in Stacks(PancakeN)
    /\ goal_state = Sorted(PancakeN)
    /\ \E gap_x \in 0..PancakeN : hF = [s \in Stacks(PancakeN) |-> GapCount(s, gap_x)]
    /\ pc = "a_star" /\ node = <<>> /\ Idle

\* a_star on vectors of one pancake and the plate, which no flip changes: the
\* goal passed may differ from the start
OnePancake == <<1, 2>>
AStarInitSingle ==
    LET n == Len(OnePancake) - 1
        S == Perms(n + 1)
    IN  /\ succOf = [s \in S |-> [k \in 1..(n - 1) |-> flip(s, k)]]
        /\ initial_state \in S
        /\ goal_state \in S
        /\ \E gap_x \in 0..n : hF = [s \in S |-> GapCount(s, gap_x)]
        /\ pc = "a_star" /\ node = <<>> /\ Idle

\* astar on every graph instance, the successor relation and the heuristic
\* standing for the moves and the Manhattan distance of the puzzle
AstarInitGraph ==
    /\ \E E \in SUBSET Pairs : succOf = AdjOf(E)
    /\ initial_state = 1
    /\ goal_state \in {1, 2} \cap V
    /\ hF \in GoodHeuristics(succOf, goal_state, MaxH)
    /\ pc = "astar" /\ node = <<>> /\ Idle

BaselineInit == AStarInitPancake \/ AStarInitSingle \/ AstarInitGraph

BaselineNext ==
    \/ PancakeAStarEntry
    \/ PancakeAStarStep
    \/ PuzzleAstarEntry
    \/ PuzzleAstarStep

BaselineSpec == BaselineInit /\ [][BaselineNext]_vars

(* --------------------------- instance properties ---------------------- *)
States == DOMAIN succOf
Optimal == Dist(initial_state, goal_state)
Solvable == Optimal # INT_MAX
Symmetric == \A s \in States : \A t \in Nbrs(s) : s \in Nbrs(t)
Admissible == \A s \in States : hF[s] <= Dist(s, goal_state)
Consistent == \A s \in States : \A t \in Nbrs(s) : Abs(hF[s] - hF[t]) <= 1
Wellformed == Symmetric /\ Admissible /\ Consistent

GbfhsReturned == gbfhs_opt # <<>>
MmeReturned == mme_opt # <<>>
InGbfhs == pc \in {"g_while", "g_level", "g_succ"}
InMme == pc \in {"m_while", "m_succ"}

(* --------------------------- recorded costs --------------------------- *)
\* the entry of state s in a direction's open or closed set
HasEntry(open, closed, s) == \E m \in open \cup closed : m.s = s
Entry(open, closed, s) ==
    IF \E m \in open : m.s = s THEN CHOOSE m \in open : m.s = s
    ELSE CHOOSE m \in closed : m.s = s
Recorded_F(s) == Entry(open_F, closed_F, s).g_F
Recorded_B(s) == Entry(open_B, closed_B, s).g_B

(* ===================================================================== *)
(* Claims                                                                *)
(* ===================================================================== *)

\* C1: on a solvable instance with start # goal, a symmetric successor
\* relation and an admissible, consistent heuristic, the value gbfhs returns
\* is the shortest-path length from start to goal, whatever nodes were picked.
C1_GbfhsOptimal ==
    (GbfhsReturned /\ initial_state # goal_state /\ Solvable /\ Wellformed)
        => gbfhs_opt[1] = Optimal

\* C2: on a solvable instance with start # goal, a symmetric successor
\* relation and an admissible, consistent heuristic, the value mme returns is
\* the shortest-path length from start to goal.
C2_MmeOptimal ==
    (MmeReturned /\ initial_state # goal_state /\ Solvable /\ Wellformed)
        => mme_opt[1] = Optimal

\* mme has returned the optimum of an instance whose optimum is at least 3
C2_Witness ==
    /\ pc = "done" /\ initial_state # goal_state /\ Solvable
    /\ Optimal >= 3 /\ mme_opt = <<Optimal>> /\ nodes_expanded >= 3

\* C3: on every solvable instance gbfhs, mme and the A* baseline return the
\* same cost.
C3_Agreement ==
    (pc = "done" /\ Solvable)
        => (gbfhs_opt[1] = mme_opt[1] /\ mme_opt[1] = a_star)

\* C4: when the initial state is the goal state, gbfhs returns 0 and mme
\* returns 0.
C4_SelfDistance ==
    initial_state = goal_state
        => /\ GbfhsReturned => gbfhs_opt[1] = 0
           /\ MmeReturned => mme_opt[1] = 0

\* C5: every call of gbfhs eventually returns, on solvable and unsolvable
\* instances alike.
C5_GbfhsTerminates == (pc = "gbfhs") ~> GbfhsReturned

\* gbfhs has returned from an unsolvable instance after levels that ended
\* with best different from fLim
C5_Witness ==
    /\ pc = "mme" /\ gbfhs_opt = <<INT_MAX>> /\ ~Solvable
    /\ nodes_expanded >= 2 /\ fLim >= 2

\* C6: every call of mme eventually returns, on solvable and unsolvable
\* instances alike.
C6_MmeTerminates == (pc = "mme") ~> MmeReturned

\* mme has returned from an unsolvable instance after several expansions
C6_Witness ==
    /\ pc = "done" /\ mme_opt = <<INT_MAX>> /\ ~Solvable /\ nodes_expanded >= 2

\* C7: when the goal cannot be reached from the start, the bound is INT_MAX in
\* every state of both searches and INT_MAX is what each controller returns.
C7_Unsolvable ==
    ~Solvable
        => /\ best = INT_MAX
           /\ GbfhsReturned => gbfhs_opt[1] = INT_MAX
           /\ MmeReturned => mme_opt[1] = INT_MAX

\* both controllers have searched an unsolvable instance and returned
C7_Witness ==
    /\ pc = "done" /\ ~Solvable /\ nodes_expanded >= 1
    /\ gbfhs_opt = <<INT_MAX>> /\ mme_opt = <<INT_MAX>>

C9_GbfhsRelaxation ==
    InGbfhs
        => /\ \A s \in DOMAIN gen_F :
                 HasEntry(open_F, closed_F, s) /\ Recorded_F(s) = gen_F[s]
           /\ \A s \in DOMAIN gen_B :
                 HasEntry(open_B, closed_B, s) /\ Recorded_B(s) = gen_B[s]

\* C10: in mme the cost recorded for a state in a direction is the least
\* parent_g + 1 over the expansions of that direction that generated it
\* (0 for the direction's own source).
C10_MmeRelaxation ==
    InMme
        => /\ \A s \in DOMAIN gen_F :
                 HasEntry(open_F, closed_F, s) /\ Recorded_F(s) = gen_F[s]
           /\ \A s \in DOMAIN gen_B :
                 HasEntry(open_B, closed_B, s) /\ Recorded_B(s) = gen_B[s]

\* mme has generated states at depth two or more in both directions
C10_Witness ==
    /\ InMme
    /\ \E s \in DOMAIN gen_F : gen_F[s] >= 2 /\ Recorded_F(s) = gen_F[s]
    /\ \E s \in DOMAIN gen_B : gen_B[s] >= 2 /\ Recorded_B(s) = gen_B[s]

\* the states that have an entry in a node set
StatesOf(set) == {m.s : m \in set}

\* C11: in every state of gbfhs and of mme no state is both in a direction's
\* open set and in that direction's closed set, and no set holds two entries
\* for one state (so the assertions of mme.cpp lines 134 and 166 hold).
C11_Disjoint ==
    (InGbfhs \/ InMme)
        => /\ StatesOf(open_F) \cap StatesOf(closed_F) = {}
           /\ StatesOf(open_B) \cap StatesOf(closed_B) = {}
           /\ \A set \in {open_F, closed_F, open_B, closed_B} :
                 \A m, k \in set : m.s = k.s => m = k

\* a search holds open and closed states in both directions, one of them open
\* in both
C11_Witness ==
    /\ InGbfhs \/ InMme
    /\ closed_F # {} /\ open_F # {} /\ closed_B # {} /\ open_B # {}
    /\ StatesOf(open_F) \cap StatesOf(open_B) # {}

\* C12: during a search the bound never increases from one state to the
\* next, and when it changes its new value is the cost sum of a state that is
\* open in both directions.
C12_Monotonic ==
    [][(InGbfhs \/ InMme) =>
        (best' <= best
         /\ (best' # best =>
               \E m \in open_F', k \in open_B' :
                   m.s = k.s /\ best' = m.g_F + k.g_B))]_vars

\* the bound has dropped below the sentinel while a search is running
C12_Witness ==
    /\ InGbfhs \/ InMme
    /\ best # INT_MAX
    /\ \E m \in open_F, k \in open_B : m.s = k.s /\ best <= m.g_F + k.g_B

\* C13: at every call of split made by gbfhs the updated gLim_F is at least
\* the previous gLim_F, the updated gLim_B is at least the previous gLim_B,
\* and the two updated limits add up to gLSum = fLim - eps + 1.
C13_SplitInvariant ==
    [][(pc = "g_while" /\ pc' = "g_level") =>
        (gLim_F' >= gLim_F /\ gLim_B' >= gLim_B
         /\ gLim_F' + gLim_B' = fLim - eps + 1)]_vars

\* least element of a non-empty set of integers
SetMin(S) == CHOOSE x \in S : \A y \in S : x <= y

\* the stopping inequality of mme on the current open sets
Inequality ==
    LET prmin_F == SetMin({pr(n, "F") : n \in open_F})
        prmin_B == SetMin({pr(n, "B") : n \in open_B})
        fmin_F == SetMin({n.g_F + n.h_F : n \in open_F})
        fmin_B == SetMin({n.g_B + n.h_B : n \in open_B})
        gmin_F == SetMin({n.g_F : n \in open_F})
        gmin_B == SetMin({n.g_B : n \in open_B})
        C == Min(prmin_F, prmin_B)
    IN  best <= Max(Max(C, fmin_F), Max(fmin_B, gmin_F + gmin_B + eps))

\* C14: in every iteration of mme with both open sets non-empty, if
\* U <= max(C, fmin_F, fmin_B, gmin_F + gmin_B + eps) holds on the current
\* open sets then mme returns the current U without expanding, and otherwise
\* exactly one node is expanded.
C14_StopInequality ==
    [][(pc = "m_while" /\ open_F # {} /\ open_B # {}) =>
        IF Inequality
        THEN pc' = "done" /\ mme_opt' = <<best>>
             /\ nodes_expanded' = nodes_expanded
             /\ open_F' = open_F /\ open_B' = open_B
        ELSE pc' # "done" /\ nodes_expanded' = nodes_expanded + 1]_vars

\* mme has returned a finite U through the stopping inequality
C14_Witness ==
    /\ pc = "done" /\ mme_opt = <<best>> /\ best # INT_MAX
    /\ open_F # {} /\ open_B # {} /\ Inequality

\* C15: when the processing of a successor in expand_level leaves
\* best <= fLim, gbfhs returns that value of best at once: the remaining
\* successors are dropped and nothing more is expanded.
C15_EarlyTermination ==
    [][(pc = "g_succ" /\ best' <= fLim) =>
        (pc' = "mme" /\ gbfhs_opt' = <<best'>> /\ successors' = <<>>
         /\ nodes_expanded' = nodes_expanded)]_vars

\* gbfhs has returned best = fLim while expandable nodes were still left
C15_Witness ==
    /\ pc = "mme" /\ gbfhs_opt = <<best>> /\ best = fLim
    /\ expandable_F # {} \/ expandable_B # {}

\* C16: every return of gbfhs from its loop happens with best = fLim or with
\* an empty open set, and when the loop guard fails on an empty open set the
\* value returned is the sentinel INT_MAX.
C16_ExitConditions ==
    [][(InGbfhs /\ pc' = "mme") =>
        (gbfhs_opt' = <<best'>>
         /\ (best' = fLim' \/ open_F' = {} \/ open_B' = {})
         /\ ((pc = "g_while" /\ (open_F = {} \/ open_B = {}))
                => best' = INT_MAX))]_vars

\* gbfhs has returned the sentinel after an open set ran empty
C16_Witness ==
    /\ pc = "mme" /\ gbfhs_opt = <<INT_MAX>> /\ best = INT_MAX
    /\ open_F = {} \/ open_B = {}
    /\ nodes_expanded >= 1 /\ best # fLim

\* C20: after every call of split gLim_F - gLim_B is 0 or 1, and from the
\* second outer iteration on exactly one limit grows, by exactly 1: the
\* backward limit when gLim_B < gLim_F, the forward limit when they are equal.
C20_SplitTieBreak ==
    [][(pc = "g_while" /\ pc' = "g_level") =>
        (gLim_F' - gLim_B' \in {0, 1}
         /\ (nodes_expanded > 0 =>
               IF gLim_B < gLim_F
               THEN gLim_B' = gLim_B + 1 /\ gLim_F' = gLim_F
               ELSE gLim_F' = gLim_F + 1 /\ gLim_B' = gLim_B))]_vars

\* gbfhs is in a level whose backward limit has just caught up with the
\* forward one, after at least three earlier levels
C20_Witness ==
    /\ pc = "g_level" /\ nodes_expanded >= 1
    /\ gLim_B >= 2 /\ gLim_F = gLim_B

\* the instance is the pancake scenario 2 1 4 3 5 -> 1 2 3 4 5 under GAP-0
ScenarioInstance ==
    /\ Cardinality(States) = Cardinality(Stacks(Len(ScenarioStart) - 1))
    /\ initial_state = ScenarioStart /\ goal_state = ScenarioGoal
    /\ \A s \in States : hF[s] = GapCount(s, 0)

\* C18: on start [2,1,4,3,5], goal [1,2,3,4,5], GAP-0 and eps = 1, gbfhs
\* (whatever it picks) and mme both return the optimal flip count 3, each
\* with nodes_expanded > 0.
C18_PancakeScenario ==
    ScenarioInstance
        => /\ Optimal = 3
           /\ pc = "mme" => gbfhs_opt = <<3>> /\ nodes_expanded > 0
           /\ pc = "done" => /\ gbfhs_opt = <<3>> /\ mme_opt = <<3>>
                             /\ nodes_expanded > 0

\* both searches have returned 3 on the scenario
C18_Witness ==
    /\ ScenarioInstance /\ pc = "done"
    /\ gbfhs_opt = <<3>> /\ mme_opt = <<3>> /\ nodes_expanded > 0

\* a node is removed from an open set and expanded in this step
Expansion ==
    Cardinality(closed_F') + Cardinality(closed_B')
        > Cardinality(closed_F) + Cardinality(closed_B)

\* C17: the counter reported for a call counts the expansions of that call
\* alone: it is 0 when the call starts (also when the call returns at once),
\* grows by one with every expansion and by nothing else, and so never
\* carries the count of an earlier call.
C17_ExpansionCounter ==
    [][/\ pc = "gbfhs" => nodes_expanded' = 0
       /\ (pc = "mme" /\ pc' = "m_while") => nodes_expanded' = 0
       /\ (InGbfhs \/ InMme) =>
             nodes_expanded' = nodes_expanded + (IF Expansion THEN 1 ELSE 0)]_vars

\* the node being expanded is a puzzle board
IsBoard(s) == Len(s) = BOARD_DIM * BOARD_DIM /\ 0 \in Range(s)

\* the stacks one k-flip away from s: a prefix of 2 to Len(s) - 1 pancakes
\* reversed, the rest in place
OneFlip(s) ==
    {[i \in 1..Len(s) |-> IF i <= m THEN s[m + 1 - i] ELSE s[i]] :
        m \in 2..(Len(s) - 1)}

\* the boards one blank move away from s: the blank exchanged with a cell
\* next to it in its row or in its column
OneMove(s) ==
    LET cells == 1..Len(s)
        row(i) == (i - 1) \div BOARD_DIM
        col(i) == (i - 1) % BOARD_DIM
        b == CHOOSE i \in cells : s[i] = 0
    IN  {[i \in cells |-> IF i = b THEN s[j] ELSE IF i = j THEN 0 ELSE s[i]] :
            j \in {c \in cells : Abs(row(c) - row(b)) + Abs(col(c) - col(b)) = 1}}

\* C19: expand(node) returns exactly the states one domain operator away
\* from node's state (every k-flip with 1 <= k <= n-1 of a pancake stack,
\* every blank move that stays on the board of a puzzle), once each, every one
\* tagged with node's direction, and never node's own state.
C19_Successors ==
    pc = "expanded"
        => LET n == node[1]
               got == {successors[i].s : i \in DOMAIN successors}
           IN  /\ got = IF IsBoard(n.s) THEN OneMove(n.s) ELSE OneFlip(n.s)
               /\ Len(successors) = Cardinality(got)
               /\ \A i \in DOMAIN successors : successors[i].dir = n.dir
               /\ n.s \notin got

\* a backward puzzle node with the blank in the centre has been expanded
\* into four successors
C19_Witness ==
    /\ pc = "expanded" /\ IsBoard(node[1].s) /\ node[1].dir = "B"
    /\ node[1].s[5] = 0 /\ Len(successors) = 4

\* the open nodes of a direction that the current limits allow to expand
WithinLimits_F == {n \in open_F : n.g_F + n.h_F <= fLim /\ n.g_F < gLim_F}
WithinLimits_B == {n \in open_B : n.g_B + n.h_B <= fLim /\ n.g_B < gLim_B}

\* C21: at every iteration of the loop of expand_level expandable_D is exactly
\* the set of nodes of open_D with g_D + h_D <= fLim and g_D < gLim_D; the
\* node picked is one of these nodes of the direction of its own tag, and a
\* level ends without early termination only when no open node of either
\* direction is within the limits.
C21_ExpandableSets ==
    [][(pc = "g_level" \/ pc = "g_succ") =>
        (expandable_F = WithinLimits_F /\ expandable_B = WithinLimits_B
         /\ ((pc = "g_level" /\ node' # node) =>
               IF node'[1].dir = "F" THEN node'[1] \in WithinLimits_F
               ELSE node'[1] \in WithinLimits_B)
         /\ ((pc = "g_level" /\ pc' # "g_level" /\ pc' # "g_succ") =>
               (WithinLimits_F = {} /\ WithinLimits_B = {})))]_vars

\* a level is under way in which both directions have open nodes within the
\* limits and one of them also has open nodes beyond them
C21_Witness ==
    /\ pc = "g_level" /\ nodes_expanded >= 1
    /\ expandable_F # {} /\ expandable_B # {}
    /\ expandable_F # open_F \/ expandable_B # open_B

\* C22: on a solvable instance with an admissible, consistent heuristic fLim
\* is at most the true optimal cost at the start of every level that gbfhs
\* runs, and best is never strictly below fLim where the two are compared
\* (loop guard, after a collision, after a level), whatever nodes are picked.
C22_LowerBound ==
    (InGbfhs /\ Solvable /\ Wellformed)
        => /\ pc = "g_level" => fLim <= Optimal
           /\ best >= fLim

\* priority of a node in the direction of its open set, as the text gives it
Priority_F(n) == Max(n.g_F + n.h_F, 2 * n.g_F + eps)
Priority_B(n) == Max(n.g_B + n.h_B, 2 * n.g_B + eps)

\* C23: the node mme expands in a step comes from the forward open set iff
\* prmin_F <= prmin_B and otherwise from the backward open set; its priority
\* is min(prmin_F, prmin_B), and among the nodes of its direction with that
\* priority it has the smallest g.
C23_NodeSelection ==
    [][(pc = "m_while" /\ nodes_expanded' = nodes_expanded + 1) =>
        LET prmin_F == SetMin({Priority_F(m) : m \in open_F})
            prmin_B == SetMin({Priority_B(m) : m \in open_B})
            n == node'[1]
        IN  IF prmin_F <= prmin_B
            THEN /\ n \in open_F /\ open_F' = open_F \ {n} /\ open_B' = open_B
                 /\ Priority_F(n) = prmin_F
                 /\ \A m \in open_F : Priority_F(m) = prmin_F => n.g_F <= m.g_F
            ELSE /\ n \in open_B /\ open_B' = open_B \ {n} /\ open_F' = open_F
                 /\ Priority_B(n) = prmin_B
                 /\ \A m \in open_B : Priority_B(m) = prmin_B => n.g_B <= m.g_B]_vars

\* mme has just taken a forward node for expansion although another forward
\* node of the same priority and larger g was open
C23_Witness ==
    /\ pc = "m_succ" /\ node[1].dir = "F"
    /\ Len(successors) = Len(succOf[node[1].s])
    /\ \E m \in open_F : /\ Priority_F(m) = Priority_F(node[1])
                         /\ m.g_F > node[1].g_F

\* every order in which the nodes of a set can be iterated
RECURSIVE Orders(_)
Orders(S) ==
    IF S = {} THEN {<<>>}
    ELSE UNION {{<<x>> \o o : o \in Orders(S \ {x})} : x \in S}

\* scan returns the three minima of the open set for every iteration order
ScanMinima(open, dir) ==
    \A order \in Orders(open) :
        LET sc == scan(order, dir)
            g(n) == IF dir = "F" THEN n.g_F ELSE n.g_B
            hh(n) == IF dir = "F" THEN n.h_F ELSE n.h_B
        IN  /\ sc.prmin = SetMin({Max(g(n) + hh(n), 2 * g(n) + eps) : n \in open})
            /\ sc.fmin = SetMin({g(n) + hh(n) : n \in open})
            /\ sc.gmin = SetMin({g(n) : n \in open})
            /\ Range(order) = open

\* C24: for every non-empty open set scan sets prmin_D to the minimum of
\* max(g_D + h_D, 2*g_D + eps), fmin_D to the minimum of g_D + h_D and gmin_D
\* to the minimum of g_D over the nodes of the set, whatever the order in which
\* the set is iterated, and the set is the same after the scan.
C24_ScanMinima ==
    (pc = "m_while" /\ open_F # {} /\ open_B # {})
        => ScanMinima(open_F, "F") /\ ScanMinima(open_B, "B")

\* mme is about to scan a forward open set whose least priority, least f and
\* least g are found on different nodes
C24_Witness ==
    /\ pc = "m_while" /\ open_B # {} /\ Cardinality(open_F) >= 2
    /\ \E a, b \in open_F :
          /\ Priority_F(a) < Priority_F(b) /\ a.g_F > b.g_F
          /\ \A m \in open_F : Priority_F(a) <= Priority_F(m) /\ b.g_F <= m.g_F

\* state s has a recorded cost of at most c in the direction of the node
\* being expanded
Suboptimal(s, c) ==
    IF node[1].dir = "F"
    THEN HasEntry(open_F, closed_F, s) /\ Recorded_F(s) <= c
    ELSE HasEntry(open_B, closed_B, s) /\ Recorded_B(s) <= c

\* C25: in both controllers, when the successor being processed is already in
\* the open or closed set of the direction with a recorded cost of at most the
\* candidate cost parent g + 1, the step changes neither set of that
\* direction, no recorded cost, neither set of the opposite direction, nor the
\* bound; in particular it never ends a level.
C25_RediscoveryNoOp ==
    [][(pc = "g_succ" \/ pc = "m_succ") =>
        LET n == node[1]
            cand == (IF n.dir = "F" THEN n.g_F ELSE n.g_B) + 1
            Same == /\ open_F' = open_F /\ closed_F' = closed_F
                    /\ open_B' = open_B /\ closed_B' = closed_B
                    /\ best' = best
        IN  /\ \A i \in DOMAIN successors :
                  (successors' = Drop(successors, i)
                      /\ Suboptimal(successors[i].s, cand)) => Same
            /\ (successors' = <<>> /\ Len(successors) > 1) =>
                  \A m \in (open_F' \ open_F) \cup (open_B' \ open_B) :
                      ~Suboptimal(m.s, cand)]_vars

\* mme has processed, without effect, a successor that was already closed in
\* the direction with a cost below that of the node being expanded
C25_Witness ==
    /\ pc = "m_succ" /\ node[1].dir = "F" /\ node[1].g_F >= 2
    /\ \E s \in Range(succOf[node[1].s]) :
          /\ \A i \in DOMAIN successors : successors[i].s # s
          /\ \E m \in closed_F : m.s = s /\ m.g_F < node[1].g_F

\* the successor mme is about to process has a recorded cost in the direction
\* that is strictly above the candidate cost
Improvement ==
    LET n == node[1]
        s == Head(successors).s
    IN  IF n.dir = "F"
        THEN HasEntry(open_F, closed_F, s) /\ Recorded_F(s) > n.g_F + 1
        ELSE HasEntry(open_B, closed_B, s) /\ Recorded_B(s) > n.g_B + 1

C27_CostsDecrease ==
    [][(InGbfhs \/ InMme) =>
        (/\ \A m \in open_F \cup closed_F :
               \E k \in open_F' \cup closed_F' : k.s = m.s /\ k.g_F <= m.g_F
         /\ \A m \in open_B \cup closed_B :
               \E k \in open_B' \cup closed_B' : k.s = m.s /\ k.g_B <= m.g_B
         /\ \A m \in open_F \cup closed_F : m.s = initial_state => m.g_F = 0
         /\ \A m \in open_B \cup closed_B : m.s = goal_state => m.g_B = 0
         /\ HasEntry(open_F, closed_F, initial_state)
         /\ HasEntry(open_B, closed_B, goal_state))]_vars

\* mme has lowered the forward cost of a state: the state is open with the
\* cost given by the node being expanded, and the only closed nodes that
\* generated it before are dearer than that node
C27_Witness ==
    /\ InMme /\ node # <<>> /\ node[1].dir = "F"
    /\ \E m \in open_F :
          /\ m.s # initial_state /\ m.g_F = node[1].g_F + 1
          /\ m.s \in Nbrs(node[1].s)
          /\ \A i \in DOMAIN successors : successors[i].s # m.s
          /\ \E t \in closed_F : m.s \in Nbrs(t.s) /\ t.g_F > node[1].g_F
          /\ \A u \in closed_F : (m.s \in Nbrs(u.s) /\ u # node[1]) => u.g_F > node[1].g_F

\* C28: whenever the priority queue of an A* baseline becomes empty without
\* the goal having been popped, the baseline returns the sentinel INT_MAX;
\* this holds for astar and for a_star.
C28_BaselineUnsolvable ==
    (pc = "returned" /\ pq = <<>>
        /\ (node = <<>> \/ ~is_solved(node[1].s, goal_state)))
        => a_star_opt = <<INT_MAX>>

\* the instance is a pancake instance: its states are the stacks of some
\* number of pancakes
PancakeInstance ==
    Cardinality(States) \in {Cardinality(Stacks(PancakeN)),
                             Cardinality(Stacks(Len(ScenarioStart) - 1))}

RECURSIVE Walk(_, _)
\* the states at which a walk of exactly k edges from a state of front ends
Walk(front, k) ==
    IF k = 0 THEN front
    ELSE Walk(UNION {Nbrs(s) : s \in front}, k - 1)

\* every recorded cost is the length of an actual path from the source of its
\* direction
ActualPaths ==
    /\ \A m \in open_F \cup closed_F : m.s \in Walk({initial_state}, m.g_F)
    /\ \A m \in open_B \cup closed_B : m.s \in Walk({goal_state}, m.g_B)

\* the bound is the cost sum of a state recorded in both directions
MeetingPoint ==
    \E m \in open_F \cup closed_F, k \in open_B \cup closed_B :
        m.s = k.s /\ best = m.g_F + k.g_B

\* C30: in every state of gbfhs and of mme the bound is the sentinel INT_MAX
\* or equals g_F(s) + g_B(s) for a state s reached in both directions, each
\* recorded g being the length of an actual path from the source of its
\* direction; so the bound, and any finite value returned, is never below
\* the true shortest-path cost from start to goal.
C30_BoundSoundness ==
    /\ (InGbfhs \/ InMme)
          => /\ ActualPaths
             /\ best = INT_MAX \/ MeetingPoint
             /\ best >= Optimal
    /\ GbfhsReturned => gbfhs_opt[1] >= Optimal
    /\ MmeReturned => mme_opt[1] >= Optimal

\* mme holds a finite bound that is the cost sum of a state reached at depth
\* two or more from each side
C30_Witness ==
    /\ InMme /\ best # INT_MAX /\ best = Optimal
    /\ \E m \in open_F \cup closed_F, k \in open_B \cup closed_B :
          m.s = k.s /\ best = m.g_F + k.g_B /\ m.g_F >= 2 /\ k.g_B >= 2

RECURSIVE Component(_)
\* the states that can be reached from a state of front
Component(front) ==
    LET more == front \cup UNION {Nbrs(s) : s \in front}
    IN  IF more = front THEN front ELSE Component(more)

Moves == {"Up", "Down", "Left", "Right"}
Opposite(move) ==
    CASE move = "Up" -> "Down" [] move = "Down" -> "Up"
      [] move = "Left" -> "Right" [] move = "Right" -> "Left"
IsValid(s, move) ==
    LET pos == get_pos(s, 0)
    IN  CASE move = "Up" -> is_valid_up(pos.row)
          [] move = "Down" -> is_valid_down(pos.row)
          [] move = "Left" -> is_valid_left(pos.col)
          [] move = "Right" -> is_valid_right(pos.col)

\* C32: flip is an involution (flip(flip(s, k), k) = s for every stack s and
\* every k with 1 <= k <= n-1) and every sliding-tile move is undone by the
\* opposite move, so in both domains every successor of a state has that
\* state among its own successors.
C32_SymmetricSuccessors ==
    pc = "expanded"
        => LET n == node[1]
           IN  IF IsBoard(n.s)
               THEN /\ \A move \in Moves :
                          IsValid(n.s, move) =>
                             /\ IsValid(make_move(n.s, move), Opposite(move))
                             /\ make_move(make_move(n.s, move), Opposite(move)) = n.s
                    /\ \A i \in DOMAIN successors :
                          \E j \in DOMAIN puzzle_expand(successors[i]) :
                              puzzle_expand(successors[i])[j].s = n.s
               ELSE /\ \A k \in 1..(Len(n.s) - 2) : flip(flip(n.s, k), k) = n.s
                    /\ \A i \in DOMAIN successors :
                          \E j \in DOMAIN expand(successors[i]) :
                              expand(successors[i])[j].s = n.s

\* a forward puzzle node with the blank in the top left corner has been
\* expanded into its two successors
C32_Witness ==
    /\ pc = "expanded" /\ IsBoard(node[1].s) /\ node[1].dir = "F"
    /\ node[1].s[1] = 0 /\ Len(successors) = 2

=============================================================================
